---- MODULE Spec2Model ----
(***************************************************************************)
(* Student management front end: the Redux slice (studentSlice), the       *)
(* service layer (studentService) with its wire transforms, the record     *)
(* store behind the REST interface, the filter and sort of the table of    *)
(* the students page, the add/edit form, the lookup page and the error     *)
(* boundary.                                                               *)
(*                                                                         *)
(* Spec is the slice under arbitrary callers, FairSpec adds that requests  *)
(* are answered, ViewSpec is the students page over a list the slice       *)
(* holds, FormSpec is the form of the students page, AppSpec is the slice  *)
(* under the handlers of the two pages and the error boundary.             *)
(*                                                                         *)
(* Text is a sequence of one-character strings.  A JavaScript number with  *)
(* a fractional part (gpa) is held in hundredths.  An optional value       *)
(* (T | null) is a sequence of length at most one.                         *)
(***************************************************************************)
EXTENDS Integers, Sequences, FiniteSets, Bags, TLC

VARIABLES
    studentState,   \* the slice state: students, recentLookup, loading, error
    rows,           \* the store's table: a set of wire records
    nextUuid,       \* the store's auto-increment key
    ops,            \* the bag of thunks in flight
    nOps,           \* number of thunks dispatched so far
    lastAction,     \* the last action that went through the reducer
    prevState,      \* the slice state that action was applied to
    allSucceeded,   \* no thunk has been rejected so far
    filters,        \* StudentsPage: the filter configuration
    sortConfig,     \* StudentsPage: the sort key and direction
    page,           \* the route that is shown: "students" or "lookup"
    showForm,       \* StudentsPage: the add/edit form is open
    editingStudent, \* StudentsPage: the student the form edits, or null
    deleteConfirm,  \* StudentsPage: the student whose delete awaits confirmation
    formData,       \* StudentForm: the draft in the form
    errors,         \* StudentForm: the fields that show a validation error
    searchId,       \* StudentLookupPage: the text of the ID field
    searchError,    \* StudentLookupPage: the message under the ID field
    hasError        \* ErrorBoundary: a rendering fault has been caught

vars == <<studentState, rows, nextUuid, ops, nOps, lastAction, prevState,
          allSucceeded, filters, sortConfig, page, showForm, editingStudent,
          deleteConfirm, formData, errors, searchId, searchError, hasError>>

\* The filter and sort state of the students page.
pageVars == <<filters, sortConfig>>

\* The state of the components: the route, the modals of the students page,
\* the form, the lookup page and the error boundary.
uiVars == <<page, showForm, editingStudent, deleteConfirm, formData, errors,
            searchId, searchError, hasError>>

\* Number of operations dispatched in one behaviour.
MaxOps == 3

\* Number of operations that may be in flight at the same time.
MaxInFlight == 2

\* Number of students the table of the students page is given.
MaxStudents == 3

----------------------------------------------------------------------------
\* Text and number conversions

None == <<>>

Some(x) == <<x>>

DigitChars == <<"0", "1", "2", "3", "4", "5", "6", "7", "8", "9">>

IsDigit(c) == \E d \in 1..10 : DigitChars[d] = c

DigitVal(c) == (CHOOSE d \in 1..10 : DigitChars[d] = c) - 1

RECURSIVE NumberToString(_)
\* Number.prototype.toString() of a non-negative integer.
NumberToString(n) ==
    IF n < 10 THEN <<DigitChars[n + 1]>>
    ELSE NumberToString(n \div 10) \o <<DigitChars[(n % 10) + 1]>>

\* A JavaScript value that is a number (in hundredths) or a string.
JsNumber(h) == [type |-> "number", value |-> h]

JsString(t) == [type |-> "string", value |-> t]

\* String(x): a string is returned as it is, a number is printed in its
\* shortest form (no trailing zeros, no point for a whole number).
JsToString(x) ==
    IF x.type = "string" THEN x.value
    ELSE LET ip == x.value \div 100
             fr == x.value % 100
         IN  NumberToString(ip) \o
             (IF fr = 0 THEN <<>>
              ELSE IF fr % 10 = 0 THEN <<".", DigitChars[(fr \div 10) + 1]>>
              ELSE <<".", DigitChars[(fr \div 10) + 1], DigitChars[(fr % 10) + 1]>>)

RECURSIVE DigitPrefixLen(_)
\* Length of the longest prefix of t made of digits.
DigitPrefixLen(t) ==
    IF t = <<>> \/ ~IsDigit(Head(t)) THEN 0 ELSE 1 + DigitPrefixLen(Tail(t))

RECURSIVE DigitsValue(_)
DigitsValue(t) ==
    IF t = <<>> THEN 0 ELSE 10 * DigitsValue(SubSeq(t, 1, Len(t) - 1)) + DigitVal(t[Len(t)])

RECURSIVE SkipSpaces(_)
SkipSpaces(t) == IF t # <<>> /\ Head(t) = " " THEN SkipSpaces(Tail(t)) ELSE t

NaN == [nan |-> TRUE, value |-> 0]

\* parseFloat(t): leading blanks are skipped, then a sign and the longest
\* numeric prefix (digits, optionally a point and digits) are read and what
\* follows is ignored; with no numeric prefix the result is NaN.  Digits
\* after the second fractional one are dropped.
ParseFloat(t) ==
    LET s0   == SkipSpaces(t)
        neg  == s0 # <<>> /\ Head(s0) = "-"
        s    == IF neg \/ (s0 # <<>> /\ Head(s0) = "+") THEN Tail(s0) ELSE s0
        n    == DigitPrefixLen(s)
        rest == SubSeq(s, n + 1, Len(s))
        hasP == rest # <<>> /\ Head(rest) = "."
        frac == IF hasP THEN Tail(rest) ELSE <<>>
        m    == DigitPrefixLen(frac)
        d1   == IF m >= 1 THEN DigitVal(frac[1]) ELSE 0
        d2   == IF m >= 2 THEN DigitVal(frac[2]) ELSE 0
        abs  == 100 * DigitsValue(SubSeq(s, 1, n)) + 10 * d1 + d2
    IN  IF n = 0 /\ m = 0 THEN NaN
        ELSE [nan |-> FALSE, value |-> IF neg THEN 0 - abs ELSE abs]

\* parseInt(t): leading blanks are skipped, then a sign and the longest
\* prefix of digits are read and what follows is ignored; with no digit the
\* result is NaN.
ParseInt(t) ==
    LET s0  == SkipSpaces(t)
        neg == s0 # <<>> /\ Head(s0) = "-"
        s   == IF neg \/ (s0 # <<>> /\ Head(s0) = "+") THEN Tail(s0) ELSE s0
        n   == DigitPrefixLen(s)
        abs == DigitsValue(SubSeq(s, 1, n))
    IN  IF n = 0 THEN NaN
        ELSE [nan |-> FALSE, value |-> IF neg THEN 0 - abs ELSE abs]

\* String.prototype.trim(): the text from its first to its last character
\* that is not a blank.
trim(t) ==
    LET inked == {i \in 1..Len(t) : t[i] # " "}
    IN  IF inked = {} THEN <<>>
        ELSE SubSeq(t, CHOOSE i \in inked : \A j \in inked : i <= j,
                       CHOOSE i \in inked : \A j \in inked : i >= j)

----------------------------------------------------------------------------
\* Records

\* The draft submitted by the add form (CreateStudentRequest).
BobDraft ==
    [name |-> <<"B", "o", "b">>, class |-> 5, sex |-> "male", age |-> 12,
     siblings |-> 0, gpa |-> <<"7", ".", "0">>]

\* The draft submitted by the edit form (UpdateStudentRequest).
AnnDraft ==
    [name |-> <<"A", "n", "n">>, class |-> 6, sex |-> "female", age |-> 11,
     siblings |-> 2, gpa |-> <<"9", ".", "2", "5">>]

CreateDrafts == {BobDraft}

UpdateDrafts == {AnnDraft}

\* The row the store holds before the application starts.
AliceRow ==
    [uuid |-> 1, name |-> <<"A", "l", "i", "c", "e">>, class |-> 5,
     sex |-> "female", age |-> 11, siblings |-> 1,
     gpa |-> JsString(<<"8", ".", "5">>)]

InitialRows == {{}, {AliceRow}}

\* Identifiers a caller passes to loadOne, update and delete.
IdArgs == {NumberToString(1)}

\* Variant: age and siblings change places.
transformStudentFromBackend_swap(backendStudent) ==
    [id       |-> NumberToString(backendStudent.uuid),
     name     |-> backendStudent.name,
     class    |-> backendStudent.class,
     sex      |-> backendStudent.sex,
     age      |-> backendStudent.siblings,
     siblings |-> backendStudent.age,
     gpa      |-> JsToString(backendStudent.gpa)]

transformStudentFromBackend(backendStudent) ==
    [id       |-> NumberToString(backendStudent.uuid),
     name     |-> backendStudent.name,
     class    |-> backendStudent.class,
     sex      |-> backendStudent.sex,
     age      |-> backendStudent.age,
     siblings |-> backendStudent.siblings,
     gpa      |-> JsToString(backendStudent.gpa)]

transformStudentToBackend(studentData) ==
    [name     |-> studentData.name,
     class    |-> studentData.class,
     sex      |-> studentData.sex,
     age      |-> studentData.age,
     siblings |-> studentData.siblings,
     gpa      |-> ParseFloat(studentData.gpa)]

----------------------------------------------------------------------------
\* The slice: initial state and reducers

initialState ==
    [students |-> <<>>, recentLookup |-> None, loading |-> FALSE, error |-> None]

\* Exported by the slice; no component dispatches it, so no action of the
\* specification applies it.
setRecentLookup(state, payload) == [state EXCEPT !.recentLookup = Some(payload)]

\* Variant: dismissing the error also empties the lookup slot.
clearError_all(state) ==
    [state EXCEPT !.error = None, !.recentLookup = None]

clearError(state) == [state EXCEPT !.error = None]

fetchStudents_pending(state) ==
    [state EXCEPT !.loading = TRUE, !.error = None]

\* Variant: the response is merged into the list instead of replacing it.
fetchStudents_fulfilled_merge(state, payload) ==
    [state EXCEPT !.loading = FALSE, !.students = @ \o payload]

fetchStudents_fulfilled(state, payload) ==
    [state EXCEPT !.loading = FALSE, !.students = payload]

\* Variant: a failed refresh empties the list.
fetchStudents_rejected_reset(state, payload) ==
    [state EXCEPT !.loading = FALSE, !.error = Some(payload), !.students = <<>>]

fetchStudents_rejected(state, payload) ==
    [state EXCEPT !.loading = FALSE, !.error = Some(payload)]

fetchStudentById_pending(state) ==
    [state EXCEPT !.loading = TRUE, !.error = None]

\* Variant: a successful lookup also clears the error.
fetchStudentById_fulfilled_clearError(state, payload) ==
    [state EXCEPT !.loading = FALSE, !.recentLookup = Some(payload),
                  !.error = None]

fetchStudentById_fulfilled(state, payload) ==
    [state EXCEPT !.loading = FALSE, !.recentLookup = Some(payload)]

fetchStudentById_rejected(state, payload) ==
    [state EXCEPT !.loading = FALSE, !.error = Some(payload)]

\* Variant: the pending case does not raise the loading flag.
createStudent_pending_noFlag(state) ==
    [state EXCEPT !.error = None]

createStudent_pending(state) ==
    [state EXCEPT !.loading = TRUE, !.error = None]

\* Variant: the created record is put at the front of the list.
createStudent_fulfilled_unshift(state, payload) ==
    [state EXCEPT !.loading = FALSE, !.students = <<payload>> \o @]

\* Variant: the created record is also stored as the recent lookup.
createStudent_fulfilled_lookup(state, payload) ==
    [state EXCEPT !.loading = FALSE, !.students = Append(@, payload),
                  !.recentLookup = Some(payload)]

createStudent_fulfilled(state, payload) ==
    [state EXCEPT !.loading = FALSE, !.students = Append(@, payload)]

\* Variant: a failed create leaves a placeholder row in the list.
createStudent_rejected_stub(state, payload) ==
    [state EXCEPT !.loading = FALSE, !.error = Some(payload),
                  !.students = Append(@, [id |-> <<>>, name |-> <<>>, class |-> 0,
                                          sex |-> "male", age |-> 0, siblings |-> 0,
                                          gpa |-> <<>>])]

createStudent_rejected(state, payload) ==
    [state EXCEPT !.loading = FALSE, !.error = Some(payload)]

\* Variant: the pending case leaves an earlier error in place.
updateStudent_pending_keepError(state) ==
    [state EXCEPT !.loading = TRUE]

updateStudent_pending(state) ==
    [state EXCEPT !.loading = TRUE, !.error = None]

\* findIndex: the first index whose element has the id, 0 when there is none.
findIndex(students, id) ==
    IF \E i \in 1..Len(students) : students[i].id = id
    THEN CHOOSE i \in 1..Len(students) :
             /\ students[i].id = id
             /\ \A j \in 1..(i - 1) : students[j].id # id
    ELSE 0

\* Variant: a record that is not in the list is appended (upsert).
updateStudent_fulfilled_upsert(state, payload) ==
    LET index == findIndex(state.students, payload.id)
    IN  IF index # 0
        THEN [state EXCEPT !.loading = FALSE, !.students[index] = payload]
        ELSE [state EXCEPT !.loading = FALSE, !.students = Append(@, payload)]

\* Variant: a record that is not in the list is put back at its front.
updateStudent_fulfilled_restore(state, payload) ==
    LET index == findIndex(state.students, payload.id)
    IN  IF index # 0
        THEN [state EXCEPT !.loading = FALSE, !.students[index] = payload]
        ELSE [state EXCEPT !.loading = FALSE, !.students = <<payload>> \o @]

updateStudent_fulfilled(state, payload) ==
    LET index == findIndex(state.students, payload.id)
    IN  IF index # 0
        THEN [state EXCEPT !.loading = FALSE, !.students[index] = payload]
        ELSE [state EXCEPT !.loading = FALSE]

updateStudent_rejected(state, payload) ==
    [state EXCEPT !.loading = FALSE, !.error = Some(payload)]

deleteStudent_pending(state) ==
    [state EXCEPT !.loading = TRUE, !.error = None]

\* Variant: the element at the position of the first match and everything
\* after it is cut off (removal by position).
deleteStudent_fulfilled_truncate(state, payload) ==
    LET index == findIndex(state.students, payload)
    IN  IF index # 0
        THEN [state EXCEPT !.loading = FALSE,
                           !.students = SubSeq(@, 1, index - 1)]
        ELSE [state EXCEPT !.loading = FALSE]

\* Variant: deleting the looked-up record also clears the lookup slot.
deleteStudent_fulfilled_clearLookup(state, payload) ==
    LET keep(s) == s.id # payload
    IN  [state EXCEPT !.loading = FALSE, !.students = SelectSeq(@, keep),
                      !.recentLookup =
                          IF @ # None /\ @[1].id = payload THEN None ELSE @]

deleteStudent_fulfilled(state, payload) ==
    LET keep(s) == s.id # payload
    IN  [state EXCEPT !.loading = FALSE, !.students = SelectSeq(@, keep)]

\* Variant: a failed delete leaves the loading flag up.
deleteStudent_rejected_stuck(state, payload) ==
    [state EXCEPT !.error = Some(payload)]

deleteStudent_rejected(state, payload) ==
    [state EXCEPT !.loading = FALSE, !.error = Some(payload)]

----------------------------------------------------------------------------
\* The record store behind the REST interface

\* The row addressed by /student/{id}, as a set with at most one element.
RowsWithId(id) == {r \in rows : NumberToString(r.uuid) = id}

RECURSIVE RowsInOrder(_)
\* The rows of a set in key order.
RowsInOrder(S) ==
    IF S = {} THEN <<>>
    ELSE LET first == CHOOSE r \in S : \A q \in S : r.uuid <= q.uuid
         IN  <<first>> \o RowsInOrder(S \ {first})

\* The row the store keeps for a wire draft under key u.
RowOf(u, backendData) ==
    [uuid |-> u, name |-> backendData.name, class |-> backendData.class,
     sex |-> backendData.sex, age |-> backendData.age,
     siblings |-> backendData.siblings,
     gpa |-> JsNumber(backendData.gpa.value)]

NetworkErrorMessage == "Network Error"

NotFoundMessage == "Request failed with status code 404"

----------------------------------------------------------------------------
\* StudentsPage: filter and sort of the table

LowerChars ==
    <<"a", "b", "c", "d", "e", "f", "g", "h", "i", "j", "k", "l", "m",
      "n", "o", "p", "q", "r", "s", "t", "u", "v", "w", "x", "y", "z">>

UpperChars ==
    <<"A", "B", "C", "D", "E", "F", "G", "H", "I", "J", "K", "L", "M",
      "N", "O", "P", "Q", "R", "S", "T", "U", "V", "W", "X", "Y", "Z">>

IsUpper(c) == \E k \in 1..26 : UpperChars[k] = c

IsLower(c) == \E k \in 1..26 : LowerChars[k] = c

\* The characters texts are made of.
Chars ==
    {LowerChars[k] : k \in 1..26} \cup {UpperChars[k] : k \in 1..26} \cup
    {DigitChars[d] : d \in 1..10} \cup {".", "-", " "}

\* The small letter of each character.
LowerOf ==
    [c \in Chars |->
        IF IsUpper(c) THEN LowerChars[CHOOSE k \in 1..26 : UpperChars[k] = c]
        ELSE c]

\* String.prototype.toLowerCase()
toLowerCase(t) == [i \in 1..Len(t) |-> LowerOf[t[i]]]

\* String.prototype.includes(sub)
includes(t, sub) ==
    \E i \in 0..(Len(t) - Len(sub)) : SubSeq(t, i + 1, i + Len(sub)) = sub

\* Collation weight of a character: punctuation, then digits, then letters,
\* a letter and its capital having the same weight.
CharWeight ==
    [c \in Chars |->
        IF IsDigit(c) THEN 1 + DigitVal(c)
        ELSE IF IsLower(c) THEN 10 + (CHOOSE k \in 1..26 : LowerChars[k] = c)
        ELSE IF IsUpper(c) THEN 10 + (CHOOSE k \in 1..26 : UpperChars[k] = c)
        ELSE 0]

Weight(c) == CharWeight[c]

\* The first index at which two texts differ in the table's value, 0 when
\* none does within the shorter of the two.
FirstDiff(a, b, table) ==
    LET n == IF Len(a) < Len(b) THEN Len(a) ELSE Len(b)
        D == {i \in 1..n : table[a[i]] # table[b[i]]}
    IN  IF D = {} THEN 0 ELSE CHOOSE i \in D : \A j \in D : i <= j

CharCase == [c \in Chars |-> IF IsUpper(c) THEN 1 ELSE 0]

CaseRank(c) == CharCase[c]

\* String.prototype.localeCompare(that): by letters first, the shorter text
\* first when it is a prefix; texts equal in letters are ordered by case,
\* the small letter first.
localeCompare(a, b) ==
    LET p == FirstDiff(a, b, CharWeight)
        c == FirstDiff(a, b, CharCase)
    IN  IF p # 0 THEN (IF Weight(a[p]) < Weight(b[p]) THEN -1 ELSE 1)
        ELSE IF Len(a) # Len(b) THEN (IF Len(a) < Len(b) THEN -1 ELSE 1)
        ELSE IF c # 0 THEN (IF CaseRank(a[c]) < CaseRank(b[c]) THEN -1 ELSE 1)
        ELSE 0

\* The text of a sex value.
SexText(sex) ==
    IF sex = "male" THEN <<"m", "a", "l", "e">>
    ELSE IF sex = "female" THEN <<"f", "e", "m", "a", "l", "e">>
    ELSE <<>>

\* useState<FilterConfig>: every field is undefined (None) or holds a value;
\* name holds a text and sex one of "", "male", "female".
initialFilters ==
    [name |-> Some(<<>>), class |-> None, sex |-> Some(""), minAge |-> None,
     maxAge |-> None]

\* useState<SortConfig>
initialSortConfig == [key |-> "name", direction |-> "asc"]

\* The columns whose header requests a sort.
SortKeys == {"name", "class", "sex", "age", "siblings", "gpa"}

\* !x for a field holding a number: undefined and 0 are falsy.
NotNumber(x) == x = None \/ x[1] = 0

\* !x for the name field: undefined and the empty text are falsy.
NotText(x) == x = None \/ x[1] = <<>>

\* !x for the sex field: undefined and "" are falsy.
NotSex(x) == x = None \/ x[1] = ""

\* The callback of students.filter(...)
Matches(student, f) ==
    LET nameMatch  == NotText(f.name) \/
                      includes(toLowerCase(student.name), toLowerCase(f.name[1]))
        classMatch == NotNumber(f.class) \/ student.class = f.class[1]
        sexMatch   == NotSex(f.sex) \/ student.sex = f.sex[1]
        ageMatch   == /\ (NotNumber(f.minAge) \/ student.age >= f.minAge[1])
                      /\ (NotNumber(f.maxAge) \/ student.age <= f.maxAge[1])
    IN  nameMatch /\ classMatch /\ sexMatch /\ ageMatch

\* Variant: the gpa is read as a number.
Field_gpaNumber(a, key) ==
    CASE key = "id"       -> JsString(a.id)
      [] key = "name"     -> JsString(a.name)
      [] key = "class"    -> JsNumber(100 * a.class)
      [] key = "sex"      -> JsString(SexText(a.sex))
      [] key = "age"      -> JsNumber(100 * a.age)
      [] key = "siblings" -> JsNumber(100 * a.siblings)
      [] key = "gpa"      -> JsNumber(ParseFloat(a.gpa).value)

\* a[sortConfig.key] as a JavaScript value.
Field(a, key) ==
    CASE key = "id"       -> JsString(a.id)
      [] key = "name"     -> JsString(a.name)
      [] key = "class"    -> JsNumber(100 * a.class)
      [] key = "sex"      -> JsString(SexText(a.sex))
      [] key = "age"      -> JsNumber(100 * a.age)
      [] key = "siblings" -> JsNumber(100 * a.siblings)
      [] key = "gpa"      -> JsString(a.gpa)

\* Variant: the comparator does not look at the direction.
compare_ascOnly(a, b, sc) ==
    LET aValue == Field(a, sc.key)
        bValue == Field(b, sc.key)
    IN  IF aValue.type = "string" /\ bValue.type = "string"
        THEN localeCompare(aValue.value, bValue.value)
        ELSE IF aValue.type = "number" /\ bValue.type = "number"
        THEN aValue.value - bValue.value
        ELSE 0

\* The comparator passed to filtered.sort(...)
compare(a, b, sc) ==
    LET aValue == Field(a, sc.key)
        bValue == Field(b, sc.key)
    IN  IF aValue.type = "string" /\ bValue.type = "string"
        THEN IF sc.direction = "asc"
             THEN localeCompare(aValue.value, bValue.value)
             ELSE localeCompare(bValue.value, aValue.value)
        ELSE IF aValue.type = "number" /\ bValue.type = "number"
        THEN IF sc.direction = "asc"
             THEN aValue.value - bValue.value
             ELSE bValue.value - aValue.value
        ELSE 0

\* The position sort gives the element at index i: behind every element
\* that compares before it and every earlier element that compares equal.
Position(array, i, sc) ==
    1 + Cardinality({j \in 1..Len(array) :
                        LET c == compare(array[j], array[i], sc)
                        IN  c < 0 \/ (c = 0 /\ j < i)})

\* Array.prototype.sort(compare): a stable sort.
sort(array, sc) ==
    LET position == [i \in 1..Len(array) |-> Position(array, i, sc)]
    IN  [k \in 1..Len(array) |->
            array[CHOOSE i \in 1..Len(array) : position[i] = k]]

\* Array.prototype.filter: a new array of the elements that match.
filter(array, f) ==
    LET keep(student) == Matches(student, f)
    IN  SelectSeq(array, keep)

\* Variant: the sort is applied to the students array itself.
filteredAndSortedStudents_inPlace(students, f, sc) ==
    LET sorted == sort(students, sc)
    IN  [students |-> sorted, filtered |-> filter(sorted, f)]

\* The useMemo body: students.filter makes a new array, filtered.sort sorts
\* that array in place.  The result holds both arrays as the computation
\* leaves them.
filteredAndSortedStudents(students, f, sc) ==
    LET filtered == filter(students, f)
    IN  [students |-> students, filtered |-> sort(filtered, sc)]

----------------------------------------------------------------------------
\* Thunks in flight

\* The meta of an action that belongs to no thunk.
NoOp ==
    [kind |-> "none", id |-> <<>>, data |-> None, step |-> "none",
     pc |-> "none", ok |-> FALSE, body |-> <<>>, uuid |-> 0, msg |-> "",
     awaitedBy |-> "none", requests |-> <<>>]

\* The HTTP method of the first request of a service function (LIST stands
\* for GET /students).
FirstMethod(kind) ==
    CASE kind = "fetchStudents"    -> "LIST"
      [] kind = "fetchStudentById" -> "GET"
      [] kind = "createStudent"    -> "POST"
      [] kind = "updateStudent"    -> "PUT"
      [] kind = "deleteStudent"    -> "DELETE"

\* A request as the service function has issued it; succeeded tells that
\* the function has received a successful response to it and gone on.
Request(method) == [method |-> method, succeeded |-> FALSE]

\* A thunk that has been dispatched: its first request is sent and no
\* handler awaits its result.  requests lists what the thunk has sent.
NewOp(kind, id, data) ==
    [kind |-> kind, id |-> id, data |-> data, step |-> "request",
     pc |-> "sent", ok |-> FALSE, body |-> <<>>, uuid |-> 0, msg |-> "",
     awaitedBy |-> "none", requests |-> <<Request(FirstMethod(kind))>>]

InFlight == BagToSet(ops)

\* The HTTP method of the request an operation is waiting on.
Method(op) ==
    IF op.step = "refetch" THEN "GET" ELSE FirstMethod(op.kind)

\* An action: its type, its payload and, for a thunk action, the request it
\* belongs to.
Action(type, payload, op) ==
    [type |-> type, payload |-> payload, meta |-> op]

Succeed(op, body) ==
    [op EXCEPT !.pc = "responded", !.ok = TRUE, !.body = body]

Fail(op, msg) ==
    [op EXCEPT !.pc = "responded", !.ok = FALSE, !.msg = msg]

\* useState(...) of StudentForm: the draft of an empty form.
initialFormData ==
    [name |-> <<>>, class |-> 1, sex |-> "male", age |-> 18, siblings |-> 0,
     gpa |-> <<>>]

\* The components as they are constructed, with the route p shown.
UiInit(p) ==
    /\ page = p
    /\ showForm = FALSE
    /\ editingStudent = None
    /\ deleteConfirm = None
    /\ formData = initialFormData
    /\ errors = {}
    /\ searchId = <<>>
    /\ searchError = ""
    /\ hasError = FALSE

Init ==
    /\ studentState = initialState
    /\ rows \in InitialRows
    /\ nextUuid = Cardinality(rows) + 1
    /\ ops = EmptyBag
    /\ nOps = 0
    /\ lastAction = Action("@@INIT", <<>>, NoOp)
    /\ prevState = initialState
    /\ allSucceeded = TRUE
    /\ filters = initialFilters
    /\ sortConfig = initialSortConfig
    /\ UiInit("students")

----------------------------------------------------------------------------
\* Dispatching a thunk: the pending reducer runs and the first request of
\* the service function is sent, in one step.

\* dispatch(thunk(arg)): op is the thunk as it starts, inFlight the thunks
\* already in flight.
StartCall(op, inFlight, pendingState) ==
    /\ nOps < MaxOps
    /\ BagCardinality(inFlight) < MaxInFlight
    /\ nOps' = nOps + 1
    /\ ops' = inFlight (+) SetToBag({op})
    /\ studentState' = pendingState
    /\ lastAction' = Action(op.kind \o "/pending", <<>>, op)
    /\ prevState' = studentState
    /\ UNCHANGED <<rows, nextUuid, allSucceeded, pageVars>>

\* A dispatch by a caller that is no component.
StartOp(kind, id, data, pendingState) ==
    /\ StartCall(NewOp(kind, id, data), ops, pendingState)
    /\ UNCHANGED uiVars

DispatchFetchStudents ==
    StartOp("fetchStudents", <<>>, None, fetchStudents_pending(studentState))

DispatchFetchStudentById ==
    \E id \in IdArgs :
        StartOp("fetchStudentById", id, None, fetchStudentById_pending(studentState))

DispatchCreateStudent ==
    \E studentData \in CreateDrafts :
        StartOp("createStudent", <<>>, Some(transformStudentToBackend(studentData)),
                createStudent_pending(studentState))

DispatchUpdateStudent ==
    \E id \in IdArgs, studentData \in UpdateDrafts :
        StartOp("updateStudent", id, Some(transformStudentToBackend(studentData)),
                updateStudent_pending(studentState))

DispatchDeleteStudent ==
    \E id \in IdArgs :
        StartOp("deleteStudent", id, None, deleteStudent_pending(studentState))

\* The Dismiss button, shown while an error is displayed.
DispatchClearError ==
    /\ studentState.error # None
    /\ studentState' = clearError(studentState)
    /\ lastAction' = Action("clearError", <<>>, NoOp)
    /\ prevState' = studentState
    /\ UNCHANGED <<rows, nextUuid, ops, nOps, allSucceeded, pageVars, uiVars>>

----------------------------------------------------------------------------
\* The store handles a request that has been sent

Waiting(op, method) ==
    /\ op.pc = "sent"
    /\ Method(op) = method

\* The request op goes on as newOp; the slice is not involved.
Respond(op, newOp) ==
    /\ ops' = (ops (-) SetToBag({op})) (+) SetToBag({newOp})
    /\ UNCHANGED <<studentState, nOps, lastAction, prevState, allSucceeded,
                   pageVars, uiVars>>

\* GET /students
StoreList(op) ==
    /\ Waiting(op, "LIST")
    /\ Respond(op, Succeed(op, RowsInOrder(rows)))
    /\ UNCHANGED <<rows, nextUuid>>

\* GET /student/{id}
StoreGet(op) ==
    /\ Waiting(op, "GET")
    /\ IF RowsWithId(op.id) # {}
       THEN Respond(op, Succeed(op, RowsInOrder(RowsWithId(op.id))))
       ELSE Respond(op, Fail(op, NotFoundMessage))
    /\ UNCHANGED <<rows, nextUuid>>

\* POST /student: the response carries the new key only
StorePost(op) ==
    /\ Waiting(op, "POST")
    /\ rows' = rows \cup {RowOf(nextUuid, op.data[1])}
    /\ nextUuid' = nextUuid + 1
    /\ Respond(op, [Succeed(op, <<>>) EXCEPT !.uuid = nextUuid])

\* PUT /student/{id}
StorePut(op) ==
    /\ Waiting(op, "PUT")
    /\ IF RowsWithId(op.id) # {}
       THEN /\ rows' = (rows \ RowsWithId(op.id)) \cup
                       {RowOf(r.uuid, op.data[1]) : r \in RowsWithId(op.id)}
            /\ Respond(op, Succeed(op, <<>>))
       ELSE /\ rows' = rows
            /\ Respond(op, Fail(op, NotFoundMessage))
    /\ UNCHANGED nextUuid

\* DELETE /student/{id}
StoreDelete(op) ==
    /\ Waiting(op, "DELETE")
    /\ IF RowsWithId(op.id) # {}
       THEN /\ rows' = rows \ RowsWithId(op.id)
            /\ Respond(op, Succeed(op, <<>>))
       ELSE /\ rows' = rows
            /\ Respond(op, Fail(op, NotFoundMessage))
    /\ UNCHANGED nextUuid

\* The request or its response is lost: the request fails at the client,
\* whether or not the store has handled it.
TransportFail(op) ==
    /\ op.pc = "sent" \/ (op.pc = "responded" /\ op.ok)
    /\ Respond(op, Fail(op, NetworkErrorMessage))
    /\ UNCHANGED <<rows, nextUuid>>

----------------------------------------------------------------------------
\* The client receives a response

Responded(op, kind, step, ok) ==
    /\ op.kind = kind
    /\ op.step = step
    /\ op.pc = "responded"
    /\ op.ok = ok

\* The requests of a service function that goes on, after the response to
\* its first request, to getStudentById.
ThenGet(requests) ==
    <<[requests[1] EXCEPT !.succeeded = TRUE], Request("GET")>>

\* Variant: the service fetches the record without waiting for the answer
\* to its POST.
CreateStudentRefetch_early(op) ==
    /\ op.kind = "createStudent"
    /\ op.step = "request"
    /\ Respond(op, [op EXCEPT !.step = "refetch", !.pc = "sent",
                              !.id = NumberToString(nextUuid),
                              !.uuid = nextUuid,
                              !.requests = <<@[1], Request("GET")>>])
    /\ UNCHANGED <<rows, nextUuid>>

\* createStudent (service): the POST has answered, fetch the created record.
CreateStudentRefetch(op) ==
    /\ Responded(op, "createStudent", "request", TRUE)
    /\ Respond(op, [op EXCEPT !.step = "refetch", !.pc = "sent",
                              !.id = NumberToString(op.uuid),
                              !.requests = ThenGet(@)])
    /\ UNCHANGED <<rows, nextUuid>>

\* updateStudent (service): the PUT has answered, fetch the updated record.
UpdateStudentRefetch(op) ==
    /\ Responded(op, "updateStudent", "request", TRUE)
    /\ Respond(op, [op EXCEPT !.step = "refetch", !.pc = "sent",
                              !.requests = ThenGet(@)])
    /\ UNCHANGED <<rows, nextUuid>>

\* The draft the form shows for student (null for the add form): the
\* effect of StudentForm that runs when student or isOpen changes.
FormDataFor(student) ==
    IF student = None THEN initialFormData
    ELSE [name     |-> student[1].name,
          class    |-> student[1].class,
          sex      |-> student[1].sex,
          age      |-> student[1].age,
          siblings |-> student[1].siblings,
          gpa      |-> student[1].gpa]

\* Variant: handleFormSubmit closes the form whatever the outcome.
Continue_closeAlways(op, type) ==
    IF op.awaitedBy = "handleFormSubmit"
    THEN /\ showForm' = FALSE
         /\ editingStudent' = None
         /\ formData' = FormDataFor(None)
         /\ errors' = {}
         /\ UNCHANGED searchError
    ELSE IF op.awaitedBy = "handleSearch" /\ type = "/rejected"
    THEN /\ searchError' = "Student not found. Please check the ID and try again."
         /\ UNCHANGED <<showForm, editingStudent, formData, errors>>
    ELSE UNCHANGED <<showForm, editingStudent, formData, errors, searchError>>

\* The handler that awaits the thunk goes on after unwrap():
\* handleFormSubmit closes the form after a fulfilled thunk and does nothing
\* after a rejected one; handleSearch shows its message after a rejected
\* thunk.  A thunk nobody awaits leaves the components alone.
Continue(op, type) ==
    IF op.awaitedBy = "handleFormSubmit" /\ type = "/fulfilled"
    THEN /\ showForm' = FALSE
         /\ editingStudent' = None
         /\ formData' = FormDataFor(None)
         /\ errors' = {}
         /\ UNCHANGED searchError
    ELSE IF op.awaitedBy = "handleSearch" /\ type = "/rejected"
    THEN /\ searchError' = "Student not found. Please check the ID and try again."
         /\ UNCHANGED <<showForm, editingStudent, formData, errors>>
    ELSE UNCHANGED <<showForm, editingStudent, formData, errors, searchError>>

\* The thunk settles: its fulfilled or rejected action goes through the
\* reducer, the request is over and the handler that awaits it goes on.
Settle(op, type, payload, newState) ==
    /\ studentState' = newState
    /\ lastAction' = Action(op.kind \o type, payload, op)
    /\ prevState' = studentState
    /\ ops' = ops (-) SetToBag({op})
    /\ allSucceeded' = (allSucceeded /\ type = "/fulfilled")
    /\ UNCHANGED <<rows, nextUuid, nOps, pageVars, page, deleteConfirm,
                   searchId, hasError>>
    /\ Continue(op, type)

\* getAllStudents: the response rows, transformed in order.
getAllStudents(body) == [i \in 1..Len(body) |-> transformStudentFromBackend(body[i])]

\* getStudentById: the response row, transformed.
getStudentById(body) == transformStudentFromBackend(body[1])

FetchStudentsFulfilled(op) ==
    /\ Responded(op, "fetchStudents", "request", TRUE)
    /\ Settle(op, "/fulfilled", getAllStudents(op.body),
              fetchStudents_fulfilled(studentState, getAllStudents(op.body)))

FetchStudentByIdFulfilled(op) ==
    /\ Responded(op, "fetchStudentById", "request", TRUE)
    /\ Settle(op, "/fulfilled", getStudentById(op.body),
              fetchStudentById_fulfilled(studentState, getStudentById(op.body)))

CreateStudentFulfilled(op) ==
    /\ Responded(op, "createStudent", "refetch", TRUE)
    /\ Settle(op, "/fulfilled", getStudentById(op.body),
              createStudent_fulfilled(studentState, getStudentById(op.body)))

UpdateStudentFulfilled(op) ==
    /\ Responded(op, "updateStudent", "refetch", TRUE)
    /\ Settle(op, "/fulfilled", getStudentById(op.body),
              updateStudent_fulfilled(studentState, getStudentById(op.body)))

DeleteStudentFulfilled(op) ==
    /\ Responded(op, "deleteStudent", "request", TRUE)
    /\ Settle(op, "/fulfilled", op.id, deleteStudent_fulfilled(studentState, op.id))

\* A failed request, at either step, rejects the thunk with the error message.
Failed(op, kind) ==
    /\ op.kind = kind
    /\ op.pc = "responded"
    /\ ~op.ok

\* Variant: a failed list request is sent again.
FetchStudentsRejected_retry(op) ==
    /\ Failed(op, "fetchStudents")
    /\ Respond(op, [op EXCEPT !.pc = "sent",
                              !.requests = Append(@, Request("LIST"))])
    /\ UNCHANGED <<rows, nextUuid>>

FetchStudentsRejected(op) ==
    /\ Failed(op, "fetchStudents")
    /\ Settle(op, "/rejected", op.msg, fetchStudents_rejected(studentState, op.msg))

FetchStudentByIdRejected(op) ==
    /\ Failed(op, "fetchStudentById")
    /\ Settle(op, "/rejected", op.msg, fetchStudentById_rejected(studentState, op.msg))

CreateStudentRejected(op) ==
    /\ Failed(op, "createStudent")
    /\ Settle(op, "/rejected", op.msg, createStudent_rejected(studentState, op.msg))

UpdateStudentRejected(op) ==
    /\ Failed(op, "updateStudent")
    /\ Settle(op, "/rejected", op.msg, updateStudent_rejected(studentState, op.msg))

DeleteStudentRejected(op) ==
    /\ Failed(op, "deleteStudent")
    /\ Settle(op, "/rejected", op.msg, deleteStudent_rejected(studentState, op.msg))

Next ==
    \/ DispatchFetchStudents
    \/ DispatchFetchStudentById
    \/ DispatchCreateStudent
    \/ DispatchUpdateStudent
    \/ DispatchDeleteStudent
    \/ DispatchClearError
    \/ \E op \in InFlight : StoreList(op)
    \/ \E op \in InFlight : StoreGet(op)
    \/ \E op \in InFlight : StorePost(op)
    \/ \E op \in InFlight : StorePut(op)
    \/ \E op \in InFlight : StoreDelete(op)
    \/ \E op \in InFlight : TransportFail(op)
    \/ \E op \in InFlight : CreateStudentRefetch(op)
    \/ \E op \in InFlight : UpdateStudentRefetch(op)
    \/ \E op \in InFlight : FetchStudentsFulfilled(op)
    \/ \E op \in InFlight : FetchStudentByIdFulfilled(op)
    \/ \E op \in InFlight : CreateStudentFulfilled(op)
    \/ \E op \in InFlight : UpdateStudentFulfilled(op)
    \/ \E op \in InFlight : DeleteStudentFulfilled(op)
    \/ \E op \in InFlight : FetchStudentsRejected(op)
    \/ \E op \in InFlight : FetchStudentByIdRejected(op)
    \/ \E op \in InFlight : CreateStudentRejected(op)
    \/ \E op \in InFlight : UpdateStudentRejected(op)
    \/ \E op \in InFlight : DeleteStudentRejected(op)

Spec == Init /\ [][Next]_vars

\* A step of a thunk in flight: the store answers a request (or the
\* transport reports its failure), the service goes on to its follow-up
\* fetch, or the thunk settles.
Progress ==
    \E op \in InFlight :
        \/ StoreList(op) \/ StoreGet(op) \/ StorePost(op) \/ StorePut(op)
        \/ StoreDelete(op) \/ TransportFail(op)
        \/ CreateStudentRefetch(op) \/ UpdateStudentRefetch(op)
        \/ FetchStudentsFulfilled(op) \/ FetchStudentByIdFulfilled(op)
        \/ CreateStudentFulfilled(op) \/ UpdateStudentFulfilled(op)
        \/ DeleteStudentFulfilled(op)
        \/ FetchStudentsRejected(op) \/ FetchStudentByIdRejected(op)
        \/ CreateStudentRejected(op) \/ UpdateStudentRejected(op)
        \/ DeleteStudentRejected(op)

\* Every request is answered and every continuation that is ready runs (the
\* event loop runs the continuation of every promise that has been
\* resolved); nothing obliges a caller to dispatch.
FairSpec == Spec /\ WF_vars(Progress)

----------------------------------------------------------------------------
\* StudentsPage: the handlers of the filter inputs and the column headers

\* Rows the store may hold when the page is shown.
bobRow ==
    [uuid |-> 2, name |-> <<"b", "o", "b">>, class |-> 5, sex |-> "male",
     age |-> 12, siblings |-> 0, gpa |-> JsNumber(1000)]

AnnaRow ==
    [uuid |-> 3, name |-> <<"A", "n", "n", "a">>, class |-> 6,
     sex |-> "female", age |-> 12, siblings |-> 2, gpa |-> JsNumber(950)]

TableRows == {AliceRow, bobRow, AnnaRow}

\* The lists of n students fetchStudents can have put into the slice: rows
\* of the store, each once, in any order.
ListsOfLen(n) ==
    {getAllStudents(q) :
        q \in {l \in [1..n -> TableRows] :
                  \A i, j \in 1..n : i # j => l[i] # l[j]}}

StudentLists == UNION {ListsOfLen(n) : n \in 0..MaxStudents}

\* What the user types into the name filter.
NameInputs == {<<>>, <<"A", "N">>}

\* The options of the class filter, besides "All Classes".
ClassInputs == {5}

\* The options of the gender filter.
SexInputs == {"", "male", "female"}

\* What the user types into an age filter, besides nothing.
AgeInputs == {0, 11, 12}

\* The table rows: the useMemo value for the present state.
View ==
    filteredAndSortedStudents(studentState.students, filters, sortConfig).filtered

\* The page renders with the new page state: the useMemo body runs and the
\* students array is left as that computation leaves it.
Render ==
    /\ studentState' =
           [studentState EXCEPT !.students =
               filteredAndSortedStudents(@, filters', sortConfig').students]
    /\ UNCHANGED <<rows, nextUuid, ops, nOps, lastAction, prevState,
                   allSucceeded, uiVars>>

\* value === '' for the value a filter input passes.
IsEmptyString(field, value) ==
    \/ field = "name" /\ value = Some(<<>>)
    \/ field = "sex" /\ value = Some("")

handleFilterChange(field, value) ==
    /\ filters' = [filters EXCEPT
                      ![field] = IF IsEmptyString(field, value) THEN None
                                 ELSE value]
    /\ UNCHANGED sortConfig
    /\ Render

clearFilters ==
    /\ filters' = initialFilters
    /\ UNCHANGED sortConfig
    /\ Render

\* Variant: the direction flips on every request, also for a new key.
handleSort_flipAlways(key) ==
    /\ sortConfig' =
           [key |-> key,
            direction |-> IF sortConfig.direction = "asc" THEN "desc" ELSE "asc"]
    /\ UNCHANGED filters
    /\ Render

handleSort(key) ==
    /\ sortConfig' =
           [key |-> key,
            direction |-> IF sortConfig.key = key /\ sortConfig.direction = "asc"
                          THEN "desc" ELSE "asc"]
    /\ UNCHANGED filters
    /\ Render

\* e.target.value ? parseInt(e.target.value) : undefined
NumberInput(values) == {None} \cup {Some(n) : n \in values}

FilterName == \E t \in NameInputs : handleFilterChange("name", Some(t))

FilterClass == \E c \in NumberInput(ClassInputs) : handleFilterChange("class", c)

FilterSex == \E x \in SexInputs : handleFilterChange("sex", Some(x))

FilterMinAge == \E a \in NumberInput(AgeInputs) : handleFilterChange("minAge", a)

FilterMaxAge == \E a \in NumberInput(AgeInputs) : handleFilterChange("maxAge", a)

\* The column headers are rendered while the table has rows.
SortRequest ==
    /\ ~studentState.loading
    /\ Len(View) > 0
    /\ \E key \in SortKeys : handleSort(key)

\* The page is shown with a list the slice holds and nothing in flight.
ViewInit ==
    /\ \E l \in StudentLists :
           /\ studentState = [initialState EXCEPT !.students = l]
           /\ rows = {r \in TableRows :
                         \E i \in 1..Len(l) : l[i].id = NumberToString(r.uuid)}
    /\ nextUuid = Cardinality(TableRows) + 1
    /\ ops = EmptyBag
    /\ nOps = 0
    /\ lastAction = Action("@@INIT", <<>>, NoOp)
    /\ prevState = initialState
    /\ allSucceeded = TRUE
    /\ filters = initialFilters
    /\ sortConfig = initialSortConfig
    /\ UiInit("students")

ViewNext ==
    \/ FilterName
    \/ FilterClass
    \/ FilterSex
    \/ FilterMinAge
    \/ FilterMaxAge
    \/ clearFilters
    \/ SortRequest

ViewSpec == ViewInit /\ [][ViewNext]_vars

----------------------------------------------------------------------------
\* The application: the two pages, the form and the error boundary, with
\* the slice and the store behind them

\* What the user types into the name, age, siblings and gpa fields of the
\* form.
FormInputs ==
    [name     |-> {<<" ">>, <<"B", "o", "b">>},
     age      |-> {<<>>, <<"1", "0", "1">>},
     siblings |-> {<<"-", "1">>, <<"2", "1">>},
     gpa      |-> {<<"7", "a", "b", "c">>, <<"1", "1">>, <<"-", "1">>,
                   <<"8", ".", "5">>}]

\* What the user types into the ID field of the lookup page.
SearchInputs == {<<" ">>, NumberToString(1)}

\* Variant: the boundary renders its children whatever it has caught.
Mounted_anyway(p) == page = p

\* A component of the route p is rendered: the boundary renders its
\* children only while it has caught no fault.
Mounted(p) == ~hasError /\ page = p

\* The thunks in flight once the components are unmounted: a handler of a
\* component that is gone has nothing to update.
Detach(inFlight) ==
    LET detached(op) == [op EXCEPT !.awaitedBy = "none"]
        copies(op) ==
            CopiesIn([op EXCEPT !.awaitedBy = "none"], inFlight) +
            CopiesIn([op EXCEPT !.awaitedBy = "handleFormSubmit"], inFlight) +
            CopiesIn([op EXCEPT !.awaitedBy = "handleSearch"], inFlight)
    IN  [op \in {detached(o) : o \in BagToSet(inFlight)} |-> copies(op)]

\* The components of route p are constructed (primed UiInit).
Construct(p) ==
    /\ page' = p
    /\ showForm' = FALSE
    /\ editingStudent' = None
    /\ deleteConfirm' = None
    /\ formData' = initialFormData
    /\ errors' = {}
    /\ searchId' = <<>>
    /\ searchError' = ""

\* StudentForm ------------------------------------------------------------

\* Variant: the age is not validated.
validateForm_noAge(data) ==
    (IF trim(data.name) = <<>> THEN {"name"} ELSE {}) \cup
    (IF data.class < 1 \/ data.class > 12 THEN {"class"} ELSE {}) \cup
    (IF data.siblings < 0 \/ data.siblings > 20 THEN {"siblings"} ELSE {}) \cup
    (IF trim(data.gpa) = <<>> THEN {"gpa"}
     ELSE LET gpaNum == ParseFloat(data.gpa)
          IN  IF gpaNum.nan \/ gpaNum.value < 0 \/ gpaNum.value > 1000
              THEN {"gpa"} ELSE {})

\* validateForm: the fields of newErrors; the form is valid when there is
\* none.  gpaNum is in hundredths.
validateForm(data) ==
    (IF trim(data.name) = <<>> THEN {"name"} ELSE {}) \cup
    (IF data.class < 1 \/ data.class > 12 THEN {"class"} ELSE {}) \cup
    (IF data.age < 1 \/ data.age > 100 THEN {"age"} ELSE {}) \cup
    (IF data.siblings < 0 \/ data.siblings > 20 THEN {"siblings"} ELSE {}) \cup
    (IF trim(data.gpa) = <<>> THEN {"gpa"}
     ELSE LET gpaNum == ParseFloat(data.gpa)
          IN  IF gpaNum.nan \/ gpaNum.value < 0 \/ gpaNum.value > 1000
              THEN {"gpa"} ELSE {})

\* handleInputChange(field, value) of the form.
handleInputChange(field, value) ==
    /\ formData' = [formData EXCEPT ![field] = value]
    /\ errors' = errors \ {field}
    /\ UNCHANGED <<studentState, rows, nextUuid, ops, nOps, lastAction,
                   prevState, allSucceeded, pageVars, page, showForm,
                   editingStudent, deleteConfirm, searchId, searchError,
                   hasError>>

\* The user types into a field of the open form; the age and the siblings
\* field pass parseInt(e.target.value) || 0.
FormInput ==
    /\ Mounted("students")
    /\ showForm
    /\ \/ \E t \in FormInputs.name : handleInputChange("name", t)
       \/ \E t \in FormInputs.age :
              handleInputChange("age",
                  IF ParseInt(t).nan THEN 0 ELSE ParseInt(t).value)
       \/ \E t \in FormInputs.siblings :
              handleInputChange("siblings",
                  IF ParseInt(t).nan THEN 0 ELSE ParseInt(t).value)
       \/ \E t \in FormInputs.gpa : handleInputChange("gpa", t)

\* The user fills in the two fields the add form leaves empty.
FillIn ==
    /\ Mounted("students")
    /\ showForm
    /\ \/ handleInputChange("name", <<"B", "o", "b">>)
       \/ handleInputChange("gpa", <<"8", ".", "5">>)

\* A thunk a handler dispatches and awaits with unwrap().
AwaitedOp(kind, id, data, handler) ==
    [NewOp(kind, id, data) EXCEPT !.awaitedBy = handler]

\* handleFormSubmit(studentData), up to its await.
handleFormSubmit(studentData) ==
    IF editingStudent # None
    THEN StartCall(AwaitedOp("updateStudent", editingStudent[1].id,
                             Some(transformStudentToBackend(studentData)),
                             "handleFormSubmit"),
                   ops, updateStudent_pending(studentState))
    ELSE StartCall(AwaitedOp("createStudent", <<>>,
                             Some(transformStudentToBackend(studentData)),
                             "handleFormSubmit"),
                   ops, createStudent_pending(studentState))

\* handleSubmit: the submit button of the form, enabled while nothing loads.
handleSubmit ==
    /\ Mounted("students")
    /\ showForm
    /\ ~studentState.loading
    /\ errors' = validateForm(formData)
    /\ IF validateForm(formData) = {}
       THEN handleFormSubmit(formData)
       ELSE UNCHANGED <<studentState, rows, nextUuid, ops, nOps, lastAction,
                        prevState, allSucceeded, pageVars>>
    /\ UNCHANGED <<page, showForm, editingStudent, deleteConfirm, formData,
                   searchId, searchError, hasError>>

\* StudentsPage -----------------------------------------------------------

\* The form is shown for student (null: the add form); the effect of the
\* form runs when student or isOpen has changed.
OpenForm(student) ==
    /\ showForm' = TRUE
    /\ editingStudent' = student
    /\ IF showForm /\ editingStudent = student
       THEN UNCHANGED <<formData, errors>>
       ELSE formData' = FormDataFor(student) /\ errors' = {}
    /\ UNCHANGED <<studentState, rows, nextUuid, ops, nOps, lastAction,
                   prevState, allSucceeded, pageVars, page, deleteConfirm,
                   searchId, searchError, hasError>>

\* An open modal covers the whole window (position: fixed, all four sides
\* at 0, above the page): what lies under it cannot be clicked.
ModalOpen == showForm \/ deleteConfirm # None

handleAddStudent ==
    /\ Mounted("students")
    /\ ~ModalOpen
    /\ OpenForm(None)

\* The Edit button of a row of the table, which is rendered while nothing
\* loads.
handleEditStudent ==
    /\ Mounted("students")
    /\ ~studentState.loading
    /\ ~ModalOpen
    /\ \E i \in 1..Len(View) : OpenForm(Some(View[i]))

\* The Delete button of a row of the table.
handleDeleteStudent ==
    /\ Mounted("students")
    /\ ~studentState.loading
    /\ ~ModalOpen
    /\ \E i \in 1..Len(View) : deleteConfirm' = Some(View[i])
    /\ UNCHANGED <<studentState, rows, nextUuid, ops, nOps, lastAction,
                   prevState, allSucceeded, pageVars, page, showForm,
                   editingStudent, formData, errors, searchId, searchError,
                   hasError>>

\* onClose: the Cancel button of the form, enabled while nothing loads.
onClose ==
    /\ Mounted("students")
    /\ showForm
    /\ ~studentState.loading
    /\ showForm' = FALSE
    /\ editingStudent' = None
    /\ formData' = FormDataFor(None)
    /\ errors' = {}
    /\ UNCHANGED <<studentState, rows, nextUuid, ops, nOps, lastAction,
                   prevState, allSucceeded, pageVars, page, deleteConfirm,
                   searchId, searchError, hasError>>

\* The Cancel button of the delete confirmation.
CancelDelete ==
    /\ Mounted("students")
    /\ deleteConfirm # None
    /\ ~studentState.loading
    /\ deleteConfirm' = None
    /\ UNCHANGED <<studentState, rows, nextUuid, ops, nOps, lastAction,
                   prevState, allSucceeded, pageVars, page, showForm,
                   editingStudent, formData, errors, searchId, searchError,
                   hasError>>

\* confirmDelete: the Delete Student button of the confirmation.
confirmDelete ==
    /\ Mounted("students")
    /\ ~studentState.loading
    /\ deleteConfirm # None
    /\ StartCall(NewOp("deleteStudent", deleteConfirm[1].id, None), ops,
                 deleteStudent_pending(studentState))
    /\ deleteConfirm' = None
    /\ UNCHANGED <<page, showForm, editingStudent, formData, errors,
                   searchId, searchError, hasError>>

\* The Dismiss button of either page.
Dismiss ==
    /\ ~hasError
    /\ ~ModalOpen
    /\ DispatchClearError

\* StudentLookupPage ------------------------------------------------------

\* handleInputChange(value) of the lookup page.
LookupInputChange ==
    /\ Mounted("lookup")
    /\ \E value \in SearchInputs : searchId' = value
    /\ searchError' = ""
    /\ UNCHANGED <<studentState, rows, nextUuid, ops, nOps, lastAction,
                   prevState, allSucceeded, pageVars, page, showForm,
                   editingStudent, deleteConfirm, formData, errors, hasError>>

\* handleSearch, up to its await.
handleSearch ==
    /\ IF trim(searchId) = <<>>
       THEN /\ searchError' = "Please enter a student ID"
            /\ UNCHANGED <<studentState, rows, nextUuid, ops, nOps,
                           lastAction, prevState, allSucceeded, pageVars>>
       ELSE /\ searchError' = ""
            /\ StartCall(AwaitedOp("fetchStudentById", trim(searchId), None,
                                   "handleSearch"),
                         ops, fetchStudentById_pending(studentState))
    /\ UNCHANGED <<page, showForm, editingStudent, deleteConfirm, formData,
                   errors, searchId, hasError>>

\* The Search button: disabled={loading || !searchId.trim()}.
SearchClick ==
    /\ Mounted("lookup")
    /\ ~(studentState.loading \/ trim(searchId) = <<>>)
    /\ handleSearch

\* handleKeyPress with the Enter key in the ID field.
handleKeyPress ==
    /\ Mounted("lookup")
    /\ handleSearch

\* App --------------------------------------------------------------------

\* useEffect of StudentsPage: the list is fetched when the page is mounted.
MountEffect(p, inFlight) ==
    IF p = "students"
    THEN StartCall(NewOp("fetchStudents", <<>>, None), inFlight,
                   fetchStudents_pending(studentState))
    ELSE /\ ops' = inFlight
         /\ UNCHANGED <<studentState, rows, nextUuid, nOps, lastAction,
                        prevState, allSucceeded, pageVars>>

\* A link of the navigation bar: the page shown is unmounted, the other one
\* is constructed and mounted.
Navigate ==
    /\ ~hasError
    /\ ~ModalOpen
    /\ \E p \in {"students", "lookup"} \ {page} :
           /\ Construct(p)
           /\ MountEffect(p, Detach(ops))
    /\ UNCHANGED hasError

\* A component throws while rendering: the boundary catches the fault
\* (getDerivedStateFromError) and renders its fallback instead of the
\* application, which is unmounted.
RenderFault ==
    /\ ~hasError
    /\ hasError' = TRUE
    /\ Construct(page)
    /\ ops' = Detach(ops)
    /\ UNCHANGED <<studentState, rows, nextUuid, nOps, lastAction, prevState,
                   allSucceeded, pageVars>>

\* The Refresh Page button of the fallback: window.location.reload().  The
\* application starts again at the same route with a new store; requests
\* of the page that is gone are dropped.
Reload ==
    /\ hasError
    /\ hasError' = FALSE
    /\ Construct(page)
    /\ prevState' = initialState
    /\ IF page = "students"
       THEN /\ nOps < MaxOps
            /\ nOps' = nOps + 1
            /\ ops' = SetToBag({NewOp("fetchStudents", <<>>, None)})
            /\ studentState' = fetchStudents_pending(initialState)
            /\ lastAction' = Action("fetchStudents/pending", <<>>,
                                    NewOp("fetchStudents", <<>>, None))
       ELSE /\ nOps' = nOps
            /\ ops' = EmptyBag
            /\ studentState' = initialState
            /\ lastAction' = Action("@@INIT", <<>>, NoOp)
    /\ UNCHANGED <<rows, nextUuid, allSucceeded, pageVars>>

\* The application as the browser loads a route.
AppInit ==
    /\ rows \in InitialRows
    /\ nextUuid = Cardinality(rows) + 1
    /\ prevState = initialState
    /\ allSucceeded = TRUE
    /\ filters = initialFilters
    /\ sortConfig = initialSortConfig
    /\ \E p \in {"students", "lookup"} :
           /\ UiInit(p)
           /\ IF p = "students"
              THEN /\ nOps = 1
                   /\ ops = SetToBag({NewOp("fetchStudents", <<>>, None)})
                   /\ studentState = fetchStudents_pending(initialState)
                   /\ lastAction = Action("fetchStudents/pending", <<>>,
                                          NewOp("fetchStudents", <<>>, None))
              ELSE /\ nOps = 0
                   /\ ops = EmptyBag
                   /\ studentState = initialState
                   /\ lastAction = Action("@@INIT", <<>>, NoOp)

AppNext ==
    \/ FillIn
    \/ handleSubmit
    \/ handleAddStudent
    \/ handleEditStudent
    \/ handleDeleteStudent
    \/ onClose
    \/ CancelDelete
    \/ confirmDelete
    \/ Dismiss
    \/ LookupInputChange
    \/ SearchClick
    \/ handleKeyPress
    \/ Navigate
    \/ RenderFault
    \/ Reload
    \/ Progress

AppSpec == AppInit /\ [][AppNext]_vars

\* A row the store has kept from before the class was limited to 1..12.
CarlRow ==
    [uuid |-> 1, name |-> <<"C", "a", "r", "l">>, class |-> 13,
     sex |-> "male", age |-> 17, siblings |-> 0, gpa |-> JsNumber(600)]

\* The students page with its list loaded and nothing in flight.
FormInit ==
    /\ rows \in InitialRows \cup {{CarlRow}}
    /\ nextUuid = Cardinality(rows) + 1
    /\ studentState =
           [initialState EXCEPT !.students = getAllStudents(RowsInOrder(rows))]
    /\ ops = EmptyBag
    /\ nOps = 0
    /\ lastAction = Action("@@INIT", <<>>, NoOp)
    /\ prevState = initialState
    /\ allSucceeded = TRUE
    /\ filters = initialFilters
    /\ sortConfig = initialSortConfig
    /\ UiInit("students")

\* The form of the students page: it is opened, filled in, submitted and
\* closed; a draft that passes is dispatched.
FormNext ==
    \/ handleAddStudent
    \/ handleEditStudent
    \/ FormInput
    \/ handleSubmit
    \/ onClose

FormSpec == FormInit /\ [][FormNext]_vars

----------------------------------------------------------------------------

\* The properties speak about the last action that went through the reducer
\* (lastAction), the slice state it was applied to (prevState) and the state
\* it produced (studentState).

Ids(students) == {students[i].id : i \in 1..Len(students)}

ThunkKinds ==
    {"fetchStudents", "fetchStudentById", "createStudent", "updateStudent",
     "deleteStudent"}

PendingTypes == {k \o "/pending" : k \in ThunkKinds}

FulfilledTypes == {k \o "/fulfilled" : k \in ThunkKinds}

RejectedTypes == {k \o "/rejected" : k \in ThunkKinds}

----------------------------------------------------------------------------
\* C1: in every reachable state the students list holds no two elements with
\* the same id, whatever the interleaving of overlapping operations.
C1_UniqueIds ==
    \A i, j \in 1..Len(studentState.students) :
        i # j => studentState.students[i].id # studentState.students[j].id

\* C2: when fetchStudents is fulfilled, students becomes exactly the
\* transformed rows of that response, in the response's order, whatever the
\* list held before, and recentLookup is left as it was.
C2_LoadAllReplaces ==
    lastAction.type = "fetchStudents/fulfilled" =>
        /\ Len(studentState.students) = Len(lastAction.meta.body)
        /\ \A i \in 1..Len(lastAction.meta.body) :
               studentState.students[i] =
                   transformStudentFromBackend(lastAction.meta.body[i])
        /\ studentState.recentLookup = prevState.recentLookup

\* A list refresh has replaced a non-empty list that held other contents,
\* with a lookup result in place.
C2_Witness ==
    /\ lastAction.type = "fetchStudents/fulfilled"
    /\ prevState.students # <<>>
    /\ prevState.students # studentState.students
    /\ studentState.students # <<>>
    /\ studentState.recentLookup # None

\* C3: a rejected operation sets error to its message and loading to false
\* and writes neither students nor recentLookup; these two are written by
\* fulfilled actions only, so no step of a failing operation writes them.
C3_FailureLeavesData ==
    /\ lastAction.type \in RejectedTypes =>
           /\ studentState.error = Some(lastAction.meta.msg)
           /\ studentState.loading = FALSE
           /\ studentState.students = prevState.students
           /\ studentState.recentLookup = prevState.recentLookup
    /\ lastAction.type \notin FulfilledTypes =>
           /\ studentState.students = prevState.students
           /\ studentState.recentLookup = prevState.recentLookup

\* An operation has been rejected while the list and the lookup slot held
\* data.
C3_Witness ==
    /\ lastAction.type \in RejectedTypes
    /\ studentState.error = Some(lastAction.payload)
    /\ ~studentState.loading
    /\ studentState.students # <<>>
    /\ studentState.recentLookup # None
    /\ studentState.students = prevState.students

\* C4: a fulfilled updateStudent replaces, at its index, the element whose
\* id is that of the fetched record and leaves every other element and the
\* length as they were; with no such element the list is left as it was.
C4_UpdateInPlace ==
    lastAction.type = "updateStudent/fulfilled" =>
        LET fetched == transformStudentFromBackend(lastAction.meta.body[1])
            old     == prevState.students
            new     == studentState.students
        IN  /\ fetched.id = lastAction.meta.id
            /\ Len(new) = Len(old)
            /\ fetched.id \notin Ids(old) => new = old
            /\ fetched.id \in Ids(old) =>
                   \E i \in 1..Len(old) :
                       /\ old[i].id = fetched.id
                       /\ new[i] = fetched
                       /\ \A j \in 1..Len(old) : j # i => new[j] = old[j]

\* An update has replaced the first of two elements by a record with other
\* contents, the second staying in place.
C4_Witness ==
    /\ lastAction.type = "updateStudent/fulfilled"
    /\ Len(prevState.students) = 2
    /\ Len(studentState.students) = 2
    /\ studentState.students[1] = lastAction.payload
    /\ prevState.students[1] # lastAction.payload
    /\ prevState.students[1].id = lastAction.payload.id
    /\ studentState.students[2] = prevState.students[2]
    /\ studentState.students[2].id # lastAction.payload.id

\* C5: a fulfilled deleteStudent removes by identifier: with the identifier
\* absent from the list nothing is removed, with it present once exactly that
\* element is removed, and the remaining elements keep their order.
C5_DeleteById ==
    lastAction.type = "deleteStudent/fulfilled" =>
        LET x    == lastAction.meta.id
            old  == prevState.students
            new  == studentState.students
            hits == {i \in 1..Len(old) : old[i].id = x}
        IN  /\ hits = {} => new = old
            /\ Cardinality(hits) = 1 =>
                   \E i \in hits :
                       new = SubSeq(old, 1, i - 1) \o SubSeq(old, i + 1, Len(old))
            /\ Len(new) = Len(old) - Cardinality(hits)
            /\ x \notin Ids(new)

\* A delete has removed the first of two elements and kept the second.
C5_Witness ==
    /\ lastAction.type = "deleteStudent/fulfilled"
    /\ Len(prevState.students) = 2
    /\ prevState.students[1].id = lastAction.payload
    /\ studentState.students = <<prevState.students[2]>>

\* C6: with recentLookup = R, a fulfilled deleteStudent(R.id) leaves
\* recentLookup equal to R and leaves no element with id R.id in students.
C6_DeleteKeepsLookup ==
    (/\ lastAction.type = "deleteStudent/fulfilled"
     /\ prevState.recentLookup # None
     /\ prevState.recentLookup[1].id = lastAction.meta.id)
    => /\ studentState.recentLookup = prevState.recentLookup
       /\ lastAction.meta.id \notin Ids(studentState.students)

\* The looked-up record has been deleted from the list and is still the
\* recent lookup.
C6_Witness ==
    /\ lastAction.type = "deleteStudent/fulfilled"
    /\ lastAction.payload \in Ids(prevState.students)
    /\ lastAction.payload \notin Ids(studentState.students)
    /\ studentState.recentLookup # None
    /\ studentState.recentLookup[1].id = lastAction.payload

C8_CreateAppends ==
    lastAction.type = "createStudent/fulfilled" =>
        LET fetched == transformStudentFromBackend(lastAction.meta.body[1])
        IN  /\ fetched.id = NumberToString(lastAction.meta.uuid)
            /\ studentState.students = Append(prevState.students, fetched)

\* A create has been fulfilled on a non-empty list: the new record is last
\* and the earlier elements are where they were.
C8_Witness ==
    /\ lastAction.type = "createStudent/fulfilled"
    /\ prevState.students # <<>>
    /\ Len(studentState.students) = Len(prevState.students) + 1
    /\ SubSeq(studentState.students, 1, Len(prevState.students)) = prevState.students
    /\ studentState.students[Len(studentState.students)] = lastAction.payload

\* C9: when the store has accepted the POST of a create and the follow-up
\* fetch fails, the create is rejected: students is left as it was, error is
\* set to the message and loading becomes false.
C9_CreateRefetchFails ==
    (/\ lastAction.type = "createStudent/rejected"
     /\ lastAction.meta.step = "refetch")
    => /\ studentState.students = prevState.students
       /\ studentState.error = Some(lastAction.meta.msg)
       /\ studentState.loading = FALSE

\* A create whose POST the store accepted (the row is in the store) has been
\* rejected at the follow-up fetch, and the list holds no such record.
C9_Witness ==
    /\ lastAction.type = "createStudent/rejected"
    /\ lastAction.meta.step = "refetch"
    /\ lastAction.meta.uuid \in {r.uuid : r \in rows}
    /\ NumberToString(lastAction.meta.uuid) \notin Ids(studentState.students)
    /\ studentState.students = prevState.students
    /\ studentState.students # <<>>
    /\ studentState.error = Some(lastAction.payload)
    /\ ~studentState.loading

\* C10 as stated: loading is true in every state in which a request is in
\* flight.
C10_PendingWhileInFlight ==
    InFlight # {} => studentState.loading

\* C10 as amended: loading becomes true when an operation starts and stays
\* true until an operation, this one or an overlapping one, settles; a
\* settling operation sets it to false whatever else is in flight.
C10_PendingUntilNextSettle ==
    /\ lastAction.type \in PendingTypes => studentState.loading
    /\ (prevState.loading /\ ~studentState.loading) =>
           lastAction.type \in FulfilledTypes \cup RejectedTypes
    /\ lastAction.type \in FulfilledTypes \cup RejectedTypes =>
           ~studentState.loading

\* Two operations overlap after an earlier one has settled, and loading is
\* true.
C10_Witness ==
    /\ BagCardinality(ops) = 2
    /\ nOps = 3
    /\ studentState.loading

\* C11: every operation begins, with its request just sent and no response
\* handled yet, by setting loading to true and error to empty, so that an
\* error left by an earlier operation is gone as soon as the next one starts.
C11_StartSetsPendingClearsError ==
    lastAction.type \in PendingTypes =>
        /\ studentState.loading = TRUE
        /\ studentState.error = None
        /\ lastAction.meta.pc = "sent"
        /\ lastAction.meta.step = "request"
        /\ studentState.students = prevState.students
        /\ studentState.recentLookup = prevState.recentLookup

\* An operation has started while the error of an earlier one was shown,
\* and the error is gone.
C11_Witness ==
    /\ lastAction.type \in PendingTypes
    /\ prevState.error # None
    /\ ~prevState.loading
    /\ studentState.error = None
    /\ studentState.loading

\* C12: an operation that completes sets loading to false; a rejected one
\* sets error to its own message, a fulfilled one leaves error as it was,
\* even when it holds the message of an overlapping operation.
C12_CompletionOwnOutcome ==
    /\ lastAction.type \in RejectedTypes =>
           /\ studentState.loading = FALSE
           /\ studentState.error = Some(lastAction.meta.msg)
    /\ lastAction.type \in FulfilledTypes =>
           /\ studentState.loading = FALSE
           /\ studentState.error = prevState.error

\* An operation has been fulfilled while the error of an overlapping
\* operation was recorded, and the error is still there.
C12_Witness ==
    /\ lastAction.type \in FulfilledTypes
    /\ prevState.error # None
    /\ studentState.error = prevState.error
    /\ ~studentState.loading

\* C14: clearError sets error to empty and leaves students, recentLookup
\* and loading as they were, also while an operation is in flight.
C14_ClearErrorOnly ==
    lastAction.type = "clearError" =>
        /\ studentState.error = None
        /\ studentState.students = prevState.students
        /\ studentState.recentLookup = prevState.recentLookup
        /\ studentState.loading = prevState.loading

\* The error has been dismissed while an operation was in flight, with the
\* list holding data.
C14_Witness ==
    /\ lastAction.type = "clearError"
    /\ prevState.error # None
    /\ studentState.error = None
    /\ ops # EmptyBag
    /\ studentState.students # <<>>

\* C13: when every request is answered, every operation in flight
\* eventually completes, and whenever no operation is in flight loading is
\* false, after a failure too.
C13_EventuallyIdle ==
    /\ [](ops = EmptyBag => studentState.loading = FALSE)
    /\ (ops # EmptyBag) ~> (ops = EmptyBag /\ studentState.loading = FALSE)

\* Nothing is in flight after an operation has failed while another had
\* already completed, and loading is false.
C13_Witness ==
    /\ ops = EmptyBag
    /\ nOps >= 2
    /\ lastAction.type \in RejectedTypes
    /\ prevState.loading
    /\ ~studentState.loading
    /\ studentState.error # None

\* The identifiers of the rows the store holds, as the client writes them.
StoreIds == {NumberToString(r.uuid) : r \in rows}

\* C15: when no operation is in flight, no operation has failed and the
\* last one to complete was a list refresh, the ids in students are the ids
\* the store holds, whatever the interleaving of the operations has been.
C15_ListMatchesStore ==
    (/\ ops = EmptyBag
     /\ allSucceeded
     /\ lastAction.type = "fetchStudents/fulfilled")
    => Ids(studentState.students) = StoreIds

----------------------------------------------------------------------------
\* Properties of the table of the students page

Range(seq) == {seq[i] : i \in 1..Len(seq)}

Count(seq, x) == Cardinality({i \in 1..Len(seq) : seq[i] = x})

FilterFields == {"name", "class", "sex", "minAge", "maxAge"}

\* A predicate of the filter configuration is present when its field holds
\* a value other than the "no filter" value of its input ('' for the name
\* and the gender).
Present(f, field) ==
    CASE field = "name" -> f.name # None /\ f.name # Some(<<>>)
      [] field = "sex"  -> f.sex # None /\ f.sex # Some("")
      [] OTHER          -> f[field] # None

\* The student satisfies every present predicate.
Satisfies(student, f) ==
    /\ Present(f, "name") =>
           includes(toLowerCase(student.name), toLowerCase(f.name[1]))
    /\ Present(f, "class") => student.class = f.class[1]
    /\ Present(f, "sex") => student.sex = f.sex[1]
    /\ Present(f, "minAge") => student.age >= f.minAge[1]
    /\ Present(f, "maxAge") => student.age <= f.maxAge[1]

\* C16: a student is in the table iff it satisfies every present predicate
\* of the filter, and removing one predicate from the filter removes no
\* student from the table.
C16_FilterConjunctive ==
    /\ \A x \in Range(studentState.students) :
           x \in Range(View) <=> Satisfies(x, filters)
    /\ \A field \in FilterFields :
           Range(filter(studentState.students, filters)) \subseteq
           Range(filter(studentState.students,
                        [filters EXCEPT ![field] = None]))

\* C17: with no other predicate present, a student is in the table iff its
\* age is at least minAge when minAge is present and at most maxAge when
\* maxAge is present, for every value of a bound, 0 included.
C17_AgeRangeInclusive ==
    (/\ ~Present(filters, "name")
     /\ ~Present(filters, "class")
     /\ ~Present(filters, "sex"))
    => \A x \in Range(studentState.students) :
           x \in Range(View) <=>
               /\ filters.minAge # None => x.age >= filters.minAge[1]
               /\ filters.maxAge # None => x.age <= filters.maxAge[1]

\* The toggle rule: the direction flips for the current key, another key
\* starts ascending.
Toggle(sc, key) ==
    [key |-> key,
     direction |-> IF sc.key # key THEN "asc"
                   ELSE IF sc.direction = "asc" THEN "desc" ELSE "asc"]

\* C18: the sort state starts as {name, asc}, changes only by the toggle
\* rule for the key that becomes active, and always holds one key of the
\* table and one direction.
C18_SortToggle ==
    /\ sortConfig = [key |-> "name", direction |-> "asc"]
    /\ [][sortConfig' # sortConfig =>
              sortConfig' = Toggle(sortConfig, sortConfig'.key)]_vars
    /\ [](/\ sortConfig.key \in SortKeys
          /\ sortConfig.direction \in {"asc", "desc"})

\* The age column has been requested twice in a row: descending by age.
C18_Witness ==
    /\ sortConfig = [key |-> "age", direction |-> "desc"]
    /\ Len(studentState.students) >= 2

\* a is not after b in the order of the key: by value for a number, by the
\* locale-aware order of texts for a text.
KeyLeq(a, b, key) ==
    IF key \in {"class", "age", "siblings"} THEN a[key] <= b[key]
    ELSE IF key = "sex" THEN localeCompare(SexText(a.sex), SexText(b.sex)) <= 0
    ELSE localeCompare(a[key], b[key]) <= 0

\* The table for the present students and filter, in the given direction.
ViewIn(direction) ==
    filteredAndSortedStudents(
        studentState.students, filters,
        [key |-> sortConfig.key, direction |-> direction]).filtered

DistinctKeys(seq, key) ==
    \A i, j \in 1..Len(seq) :
        i # j => ~(KeyLeq(seq[i], seq[j], key) /\ KeyLeq(seq[j], seq[i], key))

\* C19: the table holds exactly the students that pass the filter, each as
\* often as the list holds it, in non-decreasing order of the active key
\* when ascending and non-increasing when descending; with pairwise
\* distinct keys the descending table is the ascending one reversed.
C19_ViewSortedPermutation ==
    /\ \A x \in Range(studentState.students) \cup Range(View) :
           Count(View, x) = Count(filter(studentState.students, filters), x)
    /\ \A i, j \in 1..Len(View) :
           i < j => IF sortConfig.direction = "asc"
                    THEN KeyLeq(View[i], View[j], sortConfig.key)
                    ELSE KeyLeq(View[j], View[i], sortConfig.key)
    /\ DistinctKeys(View, sortConfig.key) =>
           /\ Len(ViewIn("desc")) = Len(ViewIn("asc"))
           /\ \A k \in 1..Len(View) :
                  ViewIn("desc")[k] = ViewIn("asc")[Len(View) + 1 - k]

\* The filter has removed a student and the descending sort has put the
\* remaining ones, whose keys differ, in another order than the list's.
C19_Witness ==
    /\ sortConfig.direction = "desc"
    /\ Len(View) >= 2
    /\ Len(View) < Len(studentState.students)
    /\ View # filter(studentState.students, filters)
    /\ DistinctKeys(View, sortConfig.key)

\* C20: no filter change and no sort request modifies the slice state: the
\* students list keeps its elements in their order.
C20_ViewLeavesRecords ==
    [][studentState' = studentState]_vars

\* The table shows all students in another order than the list holds them,
\* after a filter change and a sort request.
C20_Witness ==
    /\ Len(studentState.students) >= 2
    /\ Len(View) = Len(studentState.students)
    /\ View # studentState.students
    /\ sortConfig # initialSortConfig
    /\ filters # initialFilters

\* C21: the gpa column is ordered as text: in ascending order a student
\* whose gpa text starts with a smaller digit comes first although its gpa
\* is the larger number, so "10" is placed before "9.5".
C21_GpaSortedAsText ==
    (sortConfig.key = "gpa" /\ sortConfig.direction = "asc") =>
        \A i, j \in 1..Len(View) :
            (/\ DigitVal(View[i].gpa[1]) < DigitVal(View[j].gpa[1])
             /\ ParseFloat(View[i].gpa).value > ParseFloat(View[j].gpa).value)
            => i < j

\* The table is in ascending gpa order and shows "10" before "9.5".
C21_Witness ==
    /\ sortConfig = [key |-> "gpa", direction |-> "asc"]
    /\ \E i, j \in 1..Len(View) :
           /\ i < j
           /\ View[i].gpa = <<"1", "0">>
           /\ View[j].gpa = <<"9", ".", "5">>
    /\ \E i, j \in 1..Len(studentState.students) :
           /\ i < j
           /\ studentState.students[i].gpa = <<"9", ".", "5">>
           /\ studentState.students[j].gpa = <<"1", "0">>

----------------------------------------------------------------------------
\* The form (FormSpec)

\* t is a number written out and nothing else: an optional sign, digits and
\* at most one point, with a digit on at least one side of it.
IsNumericText(t) ==
    LET s    == IF t # <<>> /\ Head(t) \in {"-", "+"} THEN Tail(t) ELSE t
        n    == DigitPrefixLen(s)
        rest == SubSeq(s, n + 1, Len(s))
    IN  IF rest = <<>> THEN n > 0
        ELSE /\ Head(rest) = "."
             /\ DigitPrefixLen(Tail(rest)) = Len(Tail(rest))
             /\ n + Len(Tail(rest)) > 0

\* The draft breaks a field constraint: blank name, class outside 1..12, age
\* outside 1..100, siblings outside 0..20, gpa empty or a number outside
\* 0..10 (in hundredths).
ViolatesConstraint(data) ==
    \/ \A i \in 1..Len(data.name) : data.name[i] = " "
    \/ data.class \notin 1..12
    \/ data.age \notin 1..100
    \/ data.siblings \notin 0..20
    \/ \A i \in 1..Len(data.gpa) : data.gpa[i] = " "
    \/ /\ IsNumericText(data.gpa)
       /\ ParseFloat(data.gpa).value \notin 0..1000

\* C22: when the form is submitted with a draft that violates a field
\* constraint, no create or update is dispatched, no request is sent to the
\* store, and the slice state (records, recentLookup, pending, lastError)
\* and the store are left as they were.
C22_InvalidDraftRejected ==
    [][(handleSubmit /\ ViolatesConstraint(formData)) =>
           UNCHANGED <<studentState, rows, nextUuid, ops, nOps, lastAction>>]_vars

\* A draft that breaks the constraint of every field has been submitted and
\* nothing has been dispatched.
C22_Witness ==
    /\ showForm
    /\ errors = {"name", "class", "age", "siblings", "gpa"}
    /\ ViolatesConstraint(formData)
    /\ ops = EmptyBag
    /\ nOps = 0

\* C23: a draft that the form hands to the outbound transform (a submit
\* that dispatches) has a gpa text that is entirely numeric.
C23_GpaNumericAtTransform ==
    [][(handleSubmit /\ ops' # ops) => IsNumericText(formData.gpa)]_vars

----------------------------------------------------------------------------
\* The service layer (Spec)

\* The thunks in flight and the one whose action went through the reducer
\* last.
Known == InFlight \cup {lastAction.meta}

\* The methods of the requests a thunk has sent, in order.
Methods(op) == [i \in 1..Len(op.requests) |-> op.requests[i].method]

AllowedRequests(kind) ==
    IF kind \in {"createStudent", "updateStudent"}
    THEN {<<FirstMethod(kind)>>, <<FirstMethod(kind), "GET">>}
    ELSE {<<FirstMethod(kind)>>}

\* C25: no request is sent twice: a thunk has sent its one request (loadAll,
\* loadOne, delete) or its mutation and at most one fetch after it (create,
\* update); a thunk that has failed is over, so the thunks in flight are
\* never more than the operations dispatched and not yet completed.
C25_NoRetry ==
    /\ \A op \in Known :
           op.kind \in ThunkKinds => Methods(op) \in AllowedRequests(op.kind)
    /\ BagCardinality(ops) <= nOps
    /\ lastAction.type \in RejectedTypes =>
           /\ BagCardinality(ops) <= nOps - 1
           /\ ~lastAction.meta.ok
           /\ lastAction.meta.pc = "responded"

\* A list request has failed, the thunk is over and nothing is in flight.
C25_Witness ==
    /\ lastAction.type = "fetchStudents/rejected"
    /\ ops = EmptyBag
    /\ nOps = 1

\* C26: a record the inbound transform has made of a wire record has the
\* decimal text of the wire uuid as its id, the wire gpa as text (a text as
\* it is, a number in a form that reads back as the same number) and the
\* other five fields as they are on the wire.
C26_InboundTransform ==
    lastAction.type = "fetchStudents/fulfilled" =>
        /\ studentState.students = lastAction.payload
        /\ Len(lastAction.payload) = Len(lastAction.meta.body)
        /\ \A i \in 1..Len(lastAction.payload) :
               LET wire   == lastAction.meta.body[i]
                   record == lastAction.payload[i]
               IN  /\ DigitPrefixLen(record.id) = Len(record.id)
                   /\ DigitsValue(record.id) = wire.uuid
                   /\ wire.gpa.type = "string" => record.gpa = wire.gpa.value
                   /\ wire.gpa.type = "number" =>
                          /\ IsNumericText(record.gpa)
                          /\ ParseFloat(record.gpa).value = wire.gpa.value
                   /\ record.name = wire.name
                   /\ record.class = wire.class
                   /\ record.sex = wire.sex
                   /\ record.age = wire.age
                   /\ record.siblings = wire.siblings

\* The list has been loaded from a store that holds a text gpa ("8.5") and
\* a numeric one (7).
C26_Witness ==
    /\ lastAction.type = "fetchStudents/fulfilled"
    /\ \E i, j \in 1..Len(studentState.students) :
           /\ lastAction.meta.body[i].gpa = JsString(<<"8", ".", "5">>)
           /\ studentState.students[i].gpa = <<"8", ".", "5">>
           /\ lastAction.meta.body[j].gpa = JsNumber(700)
           /\ studentState.students[j].gpa = <<"7">>

\* C28: a fulfilled updateStudent whose id is not in the list (its record
\* has been deleted in the meantime) does not put the id back.
C28_NoResurrection ==
    (/\ lastAction.type = "updateStudent/fulfilled"
     /\ lastAction.meta.id \notin Ids(prevState.students)) =>
        lastAction.meta.id \notin Ids(studentState.students)

\* The list has been loaded, an update and a delete of the same id have
\* overlapped, both have succeeded, and the update has completed last: the
\* id is neither in the store nor in the list.
C28_Witness ==
    /\ lastAction.type = "updateStudent/fulfilled"
    /\ allSucceeded
    /\ nOps = 3
    /\ ops = EmptyBag
    /\ RowsWithId(lastAction.meta.id) = {}
    /\ prevState.students = <<>>
    /\ studentState.students = <<>>

----------------------------------------------------------------------------
\* The application (AppSpec)

\* The state of the components below the boundary.
treeVars ==
    <<page, showForm, editingStudent, deleteConfirm, formData, errors,
      searchId, searchError, filters, sortConfig>>

\* C27: the boundary starts with no fault caught; once it has caught one it
\* stays in the error state, in which no component of the application is
\* rendered (no handler runs: the components' state stays as it is and
\* nothing is dispatched), until the page is reloaded.
C27_BoundaryLatch ==
    /\ ~hasError
    /\ [][hasError =>
              \/ Reload
              \/ /\ hasError'
                 /\ UNCHANGED treeVars
                 /\ nOps' = nOps]_vars

\* A fault has been caught while the list was loaded and a thunk was in
\* flight.
C27_Witness ==
    /\ hasError
    /\ studentState.students # <<>>
    /\ ops # EmptyBag

\* The pending actions of the operations the components start on a click
\* or a key.
UserPendingTypes ==
    {"createStudent/pending", "updateStudent/pending",
     "deleteStudent/pending", "fetchStudentById/pending"}

\* C29: a create, update, delete or lookup is dispatched only in a state
\* where loading is false.
C29_DispatchOnlyWhenIdle ==
    lastAction.type \in UserPendingTypes => ~prevState.loading

\* A thunk of one of the kinds has just settled with the outcome.
Settled(kinds, outcome) ==
    /\ BagCardinality(ops') < BagCardinality(ops)
    /\ lastAction'.type \in {k \o outcome : k \in kinds}

====
